---- MODULE Spec2Model ----
(***************************************************************************)
(* Model of pkg/client/linstor.go (linstor-csi): the LINSTOR resource-name *)
(* canonicaliser, the allocation-size planner, the volume <-> annotation   *)
(* codec and the lookups over the controller's resource definitions.       *)
(*                                                                         *)
(* A Go string is modelled as a sequence of one-character strings, so that *)
(* the regular expressions, the substitution and the "LS_" prefix are      *)
(* computed character by character as the code computes them.              *)
(***************************************************************************)
EXTENDS Integers, Sequences, FiniteSets, TLC

VARIABLES
  namePc,      \* NameCanonicalizer: "call" before, "ret" after linstorifyResourceName
  nameArg,     \* the argument of the pending / last call
  nameRet,     \* the last call's result [name, err]
  namePrev,    \* the result of the call before it
  nameRound,   \* how many times a result was fed back as the next argument
  allocPc,     \* CapacityPlanner: "call" before, "ret" after AllocationSizeKiB
  requiredBytes,
  limitBytes,
  allocRet,    \* the result [size, err] of AllocationSizeKiB
  codecPc,     \* VolumeCodec: "call", "encoded", "stored", "decoded"
  vol,         \* the volume.Info passed to resDeploymentConfigFromVolumeInfo
  cfgRet,      \* its result [cfg, err]
  resDef,      \* the resource definition that holds the annotation
  decRet,      \* the result [vol, err] of resDefToVolume
  resDefs,     \* VolumeStore: the controller's resource definitions, as listed
  listErr,     \* whether ListResourceDefinitions fails
  storePc,     \* "call" before, "ret" after the operation
  storeOp,     \* the operation called
  storeArg,    \* its argument (a name, an ID or a suggested name)
  storeUuid,   \* what uuid.New() yields during the call
  storeRet     \* its result

nameVars == <<namePc, nameArg, nameRet, namePrev, nameRound>>
allocVars == <<allocPc, requiredBytes, limitBytes, allocRet>>

codecVars == <<codecPc, vol, cfgRet, resDef, decRet>>

storeVars == <<resDefs, listErr, storePc, storeOp, storeArg, storeUuid, storeRet>>

vars == <<nameVars, allocVars, codecVars, storeVars>>

(***************************************************************************)
(* Characters                                                              *)
(***************************************************************************)
UpperSeq == <<"A", "B", "C", "D", "E", "F", "G", "H", "I", "J", "K", "L", "M",
              "N", "O", "P", "Q", "R", "S", "T", "U", "V", "W", "X", "Y", "Z">>
LowerSeq == <<"a", "b", "c", "d", "e", "f", "g", "h", "i", "j", "k", "l", "m",
              "n", "o", "p", "q", "r", "s", "t", "u", "v", "w", "x", "y", "z">>
Upper == {UpperSeq[i] : i \in 1..Len(UpperSeq)}
Lower == {LowerSeq[i] : i \in 1..Len(LowerSeq)}
\* [[:alpha:]] and A-Za-z
Alpha == Upper \cup Lower
\* 0-9
Digit == {"0", "1", "2", "3", "4", "5", "6", "7", "8", "9"}
\* the class [A-Za-z0-9\-_]
NameChar == Alpha \cup Digit \cup {"-", "_"}

nil == "nil"

\* the reserved name "all"
AllName == <<"a", "l", "l">>
\* the literal "LS_"
LSPrefix == <<"L", "S", "_">>

\* {1,47}: the number of characters after the first one
MinRest == 1
MaxRest == 47

(***************************************************************************)
(* validResourceName / linstorifyResourceName                             *)
(***************************************************************************)
\* regexp.MatchString("[[:alpha:]]", resName)
MatchAlpha(resName) == \E i \in 1..Len(resName) : resName[i] \in Alpha

\* regexp.MatchString("^[A-Za-z_][A-Za-z0-9\\-_]{1,47}$", resName)
MatchName(resName) ==
  /\ Len(resName) >= 1 + MinRest
  /\ Len(resName) <= 1 + MaxRest
  /\ resName[1] \in Alpha \cup {"_"}
  /\ \A i \in 2..Len(resName) : resName[i] \in NameChar

\* validResourceName without its check of the reserved name
validResourceName_NoAll(resName) ==
  IF ~MatchAlpha(resName) THEN "ErrNoAlpha"
  ELSE IF ~MatchName(resName) THEN "ErrNoMatch"
  ELSE nil

\* the error validResourceName returns (nil when the name is valid)
validResourceName(resName) ==
  IF resName = AllName THEN "ErrAll"
  ELSE IF ~MatchAlpha(resName) THEN "ErrNoAlpha"
  ELSE IF ~MatchName(resName) THEN "ErrNoMatch"
  ELSE nil

\* regexp "[^A-Za-z0-9\\-_]" .ReplaceAllLiteralString(name, "_")
ReplaceIllegal(name) ==
  [i \in 1..Len(name) |-> IF name[i] \in NameChar THEN name[i] ELSE "_"]

\* linstorifyResourceName returning the prefixed name without validating it
linstorify_PrefixUnchecked(name) ==
  IF validResourceName(name) = nil THEN [name |-> name, err |-> nil]
  ELSE LET newName == ReplaceIllegal(name) IN
    IF validResourceName(newName) = nil THEN [name |-> newName, err |-> nil]
    ELSE [name |-> LSPrefix \o newName, err |-> nil]

\* linstorifyResourceName returning the substituted name without validating it
linstorify_SubstUnchecked(name) ==
  IF validResourceName(name) = nil THEN [name |-> name, err |-> nil]
  ELSE [name |-> ReplaceIllegal(name), err |-> nil]

linstorifyResourceName(name) ==
  IF validResourceName(name) = nil THEN [name |-> name, err |-> nil]
  ELSE LET newName == ReplaceIllegal(name) IN
    IF validResourceName(newName) = nil THEN [name |-> newName, err |-> nil]
    ELSE IF validResourceName(LSPrefix \o newName) = nil
      THEN [name |-> LSPrefix \o newName, err |-> nil]
      ELSE [name |-> <<>>, err |-> "ErrLinstorify"]


(***************************************************************************)
(* Strings: strings.ToLower, strings.Split, strconv.ParseUint              *)
(***************************************************************************)
\* unicode.ToLower of one character
LowerChar(c) ==
  IF c \in Upper THEN LowerSeq[CHOOSE i \in 1..Len(UpperSeq) : UpperSeq[i] = c] ELSE c

\* strings.ToLower(s)
ToLower(s) == [i \in 1..Len(s) |-> LowerChar(s[i])]

\* strings.Split(s, " ") for the text after the last separator seen: cur is
\* the piece being read
RECURSIVE SplitFrom(_, _)
SplitFrom(s, cur) ==
  IF s = <<>> THEN <<cur>>
  ELSE IF Head(s) = " " THEN <<cur>> \o SplitFrom(Tail(s), <<>>)
  ELSE SplitFrom(Tail(s), Append(cur, Head(s)))

\* strings.Split(v, " ")
Split(v) == SplitFrom(v, <<>>)

DigitSeq == <<"0", "1", "2", "3", "4", "5", "6", "7", "8", "9">>
DigitChar(d) == DigitSeq[d + 1]
DigitValue(c) == CHOOSE d \in 0..9 : DigitSeq[d + 1] = c

RECURSIVE ParseDigits(_, _)
ParseDigits(s, acc) ==
  IF s = <<>> THEN acc ELSE ParseDigits(Tail(s), acc * 10 + DigitValue(Head(s)))

\* strconv.ParseUint(v, 10, 64): [n, err]; the values drawn stay far below 2^64
ParseUint(v) ==
  IF v = <<>> \/ \E i \in 1..Len(v) : v[i] \notin Digit
    THEN [n |-> 0, err |-> "ErrSyntax"]
    ELSE [n |-> ParseDigits(v, 0), err |-> nil]

(***************************************************************************)
(* encoding/json, as far as volume.Info uses it.  A JSON text is modelled  *)
(* as its tree, with every string literal kept in its escaped form and     *)
(* every number in its decimal form.                                       *)
(***************************************************************************)
\* a byte that is not valid UTF-8, and U+FFFD, which json.Marshal writes for it
InvalidByte == "xFF"
ReplacementChar == "uFFFD"

\* the text json.Marshal writes between the quotes for the Go string s
RECURSIVE JsonQuote(_)
JsonQuote(s) ==
  IF s = <<>> THEN <<>>
  ELSE LET c == Head(s) IN
    (IF c \in {"\"", "\\"} THEN <<"\\", c>>
     ELSE IF c = InvalidByte THEN <<ReplacementChar>>
     ELSE <<c>>) \o JsonQuote(Tail(s))

\* the Go string json.Unmarshal reads from the text t of a string literal
RECURSIVE JsonUnquote(_)
JsonUnquote(t) ==
  IF t = <<>> THEN <<>>
  ELSE IF Head(t) = "\\" /\ Len(t) >= 2
    THEN <<t[2]>> \o JsonUnquote(SubSeq(t, 3, Len(t)))
    ELSE <<Head(t)>> \o JsonUnquote(Tail(t))

RECURSIVE FormatNat(_)
FormatNat(n) ==
  IF n < 10 THEN <<DigitChar(n)>> ELSE Append(FormatNat(n \div 10), DigitChar(n % 10))

\* the decimal text of an int64
FormatInt(n) == IF n < 0 THEN <<"-">> \o FormatNat(-n) ELSE FormatNat(n)

\* the int64 read from a decimal text
ParseInt(t) ==
  IF t # <<>> /\ Head(t) = "-" THEN -ParseDigits(Tail(t), 0) ELSE ParseDigits(t, 0)

JString(s) == [t |-> "string", text |-> JsonQuote(s)]
JNumber(n) == [t |-> "number", text |-> FormatInt(n)]
JNull == [t |-> "null"]

\* a map[string]string: nil, or the entries kv
EmptyKV == [k \in {} |-> <<>>]
NilMap == [isnil |-> TRUE, kv |-> EmptyKV]
MakeMap(kv) == [isnil |-> FALSE, kv |-> kv]
\* make(map[string]string)
EmptyMap == MakeMap(EmptyKV)

\* a JSON object for a map[string]string: escaped key |-> string literal
JMap(m) ==
  [t |-> "object",
   members |-> [qk \in {JsonQuote(k) : k \in DOMAIN m.kv} |->
                  JString(m.kv[CHOOSE k \in DOMAIN m.kv : JsonQuote(k) = qk])]]

\* volume.Info: the fields the translation layer stores
Volume(id, name, size, params) ==
  [ID |-> id, Name |-> name, SizeBytes |-> size, Parameters |-> params]

\* json.Marshal(vol)
Marshal(v) ==
  [kind |-> "object",
   members |-> [name |-> JString(v.Name),
                id |-> JString(v.ID),
                sizeBytes |-> JNumber(v.SizeBytes),
                parameters |-> IF v.Parameters.isnil THEN JNull
                               ELSE JMap(v.Parameters)]]

\* whether the JSON value j can be read into a field of the given kind
\* (null is accepted everywhere)
Fits(j, t) == j.t \in {t, "null"}

\* the map a JSON value j unmarshals to, on top of the map old
UnmarshalMap(j, old) ==
  IF j.t = "null" THEN NilMap
  ELSE LET new == {JsonUnquote(qk) : qk \in DOMAIN j.members}
       IN MakeMap([k \in DOMAIN old.kv \cup new |->
             IF k \in new
               THEN JsonUnquote(j.members[CHOOSE qk \in DOMAIN j.members :
                                            JsonUnquote(qk) = k].text)
               ELSE old.kv[k]])

\* json.Unmarshal([]byte(doc), v): [vol, err]
Unmarshal(doc, v) ==
  IF doc.kind # "object" THEN [vol |-> v, err |-> "ErrSyntax"]
  ELSE LET m == doc.members
           has(f) == f \in DOMAIN m
           bad == \/ has("name") /\ ~Fits(m.name, "string")
                  \/ has("id") /\ ~Fits(m.id, "string")
                  \/ has("sizeBytes") /\ ~Fits(m.sizeBytes, "number")
                  \/ has("parameters") /\ ~Fits(m.parameters, "object")
                  \/ /\ has("parameters") /\ m.parameters.t = "object"
                     /\ \E qk \in DOMAIN m.parameters.members :
                           m.parameters.members[qk].t # "string"
       IN IF bad THEN [vol |-> v, err |-> "ErrType"]
          ELSE [vol |->
                  [ID |-> IF has("id") /\ m.id.t = "string"
                            THEN JsonUnquote(m.id.text) ELSE v.ID,
                   Name |-> IF has("name") /\ m.name.t = "string"
                              THEN JsonUnquote(m.name.text) ELSE v.Name,
                   SizeBytes |-> IF has("sizeBytes") /\ m.sizeBytes.t = "number"
                                   THEN ParseInt(m.sizeBytes.text) ELSE v.SizeBytes,
                   Parameters |-> IF has("parameters")
                                    THEN UnmarshalMap(m.parameters, v.Parameters)
                                    ELSE v.Parameters],
                err |-> nil]

(***************************************************************************)
(* NewLinstor, resDefToVolume, resDeploymentConfigFromVolumeInfo           *)
(***************************************************************************)
annotationsKey == "csi-volume-annotations"
fallbackPrefix == <<"c", "s", "i", "-">>
\* LinstorConfig.Controllers
Controllers == "controller"

NodeListKey == <<"n", "o", "d", "e", "l", "i", "s", "t">>
LayerListKey == <<"l", "a", "y", "e", "r", "l", "i", "s", "t">>
ReplicasOnSameKey == <<"r", "e", "p", "l", "i", "c", "a", "s", "o", "n", "s", "a", "m", "e">>
ReplicasOnDifferentKey == <<"r", "e", "p", "l", "i", "c", "a", "s", "o", "n", "d", "i", "f", "f", "e", "r", "e", "n", "t">>
AutoPlaceKey == <<"a", "u", "t", "o", "p", "l", "a", "c", "e">>
DoNotPlaceWithRegexKey == <<"d", "o", "n", "o", "t", "p", "l", "a", "c", "e", "w", "i", "t", "h", "r", "e", "g", "e", "x">>
StoragePoolKey == <<"s", "t", "o", "r", "a", "g", "e", "p", "o", "o", "l">>
DisklessStoragePoolKey == <<"d", "i", "s", "k", "l", "e", "s", "s", "s", "t", "o", "r", "a", "g", "e", "p", "o", "o", "l">>
EncryptionKey == <<"e", "n", "c", "r", "y", "p", "t", "i", "o", "n">>

\* a nil *volume.Info
NilVol == [nilvol |-> TRUE]

\* the zero volume.Info with Parameters: make(map[string]string)
NewVol == Volume(<<>>, <<>>, 0, EmptyMap)

\* the first property of props, from index i on, with the annotation key (0: none)
RECURSIVE AnnotationIndex(_, _)
AnnotationIndex(props, i) ==
  IF i > Len(props) THEN 0
  ELSE IF props[i].Key = "Aux/" \o annotationsKey THEN i
  ELSE AnnotationIndex(props, i + 1)

\* resDefToVolume looking for the key without its "Aux/" prefix
resDefToVolume_NoAuxPrefix(rd) ==
  IF \A i \in 1..Len(rd.RscDfnProps) : rd.RscDfnProps[i].Key # annotationsKey
    THEN [vol |-> NilVol, err |-> nil]
    ELSE [vol |-> NilVol, err |-> "ErrUnmarshal"]

\* resDefToVolume passing over an annotation it cannot decode
resDefToVolume_SkipCorrupt(rd) ==
  LET i == AnnotationIndex(rd.RscDfnProps, 1) IN
  IF i = 0 THEN [vol |-> NilVol, err |-> nil]
  ELSE LET r == Unmarshal(rd.RscDfnProps[i].Value, NewVol) IN
    IF r.err # nil \/ r.vol.Name = <<>> THEN [vol |-> NilVol, err |-> nil]
    ELSE [vol |-> r.vol, err |-> nil]

resDefToVolume(rd) ==
  LET i == AnnotationIndex(rd.RscDfnProps, 1) IN
  IF i = 0 THEN [vol |-> NilVol, err |-> nil]
  ELSE LET r == Unmarshal(rd.RscDfnProps[i].Value, NewVol) IN
    IF r.err # nil THEN [vol |-> NilVol, err |-> "ErrUnmarshal"]
    ELSE IF r.vol.Name = <<>> THEN [vol |-> NilVol, err |-> "ErrNoName"]
    ELSE [vol |-> r.vol, err |-> nil]

\* the scan of GetByName from entry i on: [vol, err, panic]
RECURSIVE GetByNameFrom(_, _, _)
GetByNameFrom(list, i, name) ==
  IF i > Len(list) THEN [vol |-> NilVol, err |-> nil, panic |-> FALSE]
  ELSE LET r == resDefToVolume(list[i]) IN
    IF r.err # nil THEN [vol |-> NilVol, err |-> r.err, panic |-> FALSE]
    ELSE IF r.vol = NilVol THEN GetByNameFrom(list, i + 1, name)
    ELSE IF r.vol.Name = name THEN [vol |-> r.vol, err |-> nil, panic |-> FALSE]
    ELSE IF r.vol.Name = fallbackPrefix \o name
      THEN [vol |-> r.vol, err |-> nil, panic |-> FALSE]
    ELSE GetByNameFrom(list, i + 1, name)

\* GetByName(name), where ListResourceDefinitions yields (list, lerr)
GetByName(list, lerr, name) ==
  IF lerr THEN [vol |-> NilVol, err |-> "ErrList", panic |-> FALSE]
  ELSE GetByNameFrom(list, 1, name)

\* the scan of GetByID from entry i on: [vol, err, panic]; vol.ID of a nil
\* vol is a nil pointer dereference, which panics
RECURSIVE GetByIDFrom(_, _, _)
GetByIDFrom(list, i, ID) ==
  IF i > Len(list) THEN [vol |-> NilVol, err |-> nil, panic |-> FALSE]
  ELSE LET r == resDefToVolume(list[i]) IN
    IF r.err # nil THEN [vol |-> NilVol, err |-> r.err, panic |-> FALSE]
    ELSE IF list[i].RscName = ID THEN [vol |-> r.vol, err |-> nil, panic |-> FALSE]
    ELSE IF r.vol = NilVol THEN [vol |-> NilVol, err |-> nil, panic |-> TRUE]
    ELSE IF r.vol.ID = ID THEN [vol |-> r.vol, err |-> nil, panic |-> FALSE]
    ELSE GetByIDFrom(list, i + 1, ID)

\* GetByID(ID), where ListResourceDefinitions yields (list, lerr)
GetByID(list, lerr, ID) ==
  IF lerr THEN [vol |-> NilVol, err |-> "ErrList", panic |-> FALSE]
  ELSE GetByIDFrom(list, 1, ID)

\* CanonicalizeVolumeName(suggestedName): [name, panic]; u is what uuid.New()
\* yields when it is called
CanonicalizeVolumeName(list, lerr, suggestedName, u) ==
  LET r == linstorifyResourceName(suggestedName) IN
  IF r.err # nil THEN [name |-> fallbackPrefix \o u, panic |-> FALSE]
  ELSE LET g == GetByID(list, lerr, r.name) IN
    IF g.panic THEN [name |-> <<>>, panic |-> TRUE]
    ELSE IF g.vol # NilVol \/ g.err # nil
      THEN [name |-> fallbackPrefix \o u, panic |-> FALSE]
    ELSE [name |-> r.name, panic |-> FALSE]

\* Go's integer division, which truncates towards zero
GoDiv(a, b) == IF a >= 0 THEN a \div b ELSE -((-a) \div b)

\* uint64(x) of an int64 x, as wraps * 2^64 + n: a negative x wraps around
Uint64(x) == [wraps |-> IF x >= 0 THEN 0 ELSE 1, n |-> x]

\* the body of the switch for one parameter k = v: [cfg, err]
ApplyParameter(cfg, k, v) ==
  LET key == ToLower(k) IN
  IF key = NodeListKey THEN [cfg |-> [cfg EXCEPT !.NodeList = Split(v)], err |-> nil]
  ELSE IF key = LayerListKey
    THEN [cfg |-> [cfg EXCEPT !.LayerList = Split(v)], err |-> nil]
  ELSE IF key = ReplicasOnSameKey
    THEN [cfg |-> [cfg EXCEPT !.ReplicasOnSame = Split(v)], err |-> nil]
  ELSE IF key = ReplicasOnDifferentKey
    THEN [cfg |-> [cfg EXCEPT !.ReplicasOnDifferent = Split(v)], err |-> nil]
  ELSE IF key = StoragePoolKey
    THEN [cfg |-> [cfg EXCEPT !.StoragePool = v], err |-> nil]
  ELSE IF key = DisklessStoragePoolKey
    THEN [cfg |-> [cfg EXCEPT !.DisklessStoragePool = v], err |-> nil]
  ELSE IF key = AutoPlaceKey
    THEN LET r == ParseUint(IF v = <<>> THEN <<"0">> ELSE v) IN
         IF r.err # nil THEN [cfg |-> cfg, err |-> "ErrAutoPlace"]
         ELSE [cfg |-> [cfg EXCEPT !.AutoPlace = r.n], err |-> nil]
  ELSE IF key = DoNotPlaceWithRegexKey
    THEN [cfg |-> [cfg EXCEPT !.DoNotPlaceWithRegex = v], err |-> nil]
  ELSE IF key = EncryptionKey
    THEN [cfg |-> IF ToLower(v) = <<"t", "r", "u", "e">>
                    THEN [cfg EXCEPT !.Encryption = TRUE] ELSE cfg,
          err |-> nil]
  ELSE [cfg |-> cfg, err |-> nil]

\* the loop over vol.Parameters, in the order the map iteration yields its keys
RECURSIVE ApplyParameters(_, _, _)
ApplyParameters(cfg, params, order) ==
  IF order = <<>> THEN [cfg |-> cfg, err |-> nil]
  ELSE LET r == ApplyParameter(cfg, Head(order), params.kv[Head(order)]) IN
    IF r.err # nil THEN r ELSE ApplyParameters(r.cfg, params, Tail(order))

\* a nil *lc.ResourceDeploymentConfig
NilCfg == [nilcfg |-> TRUE]

\* the zero lc.ResourceDeploymentConfig
ZeroConfig ==
  [Name |-> <<>>, Controllers |-> "", SizeKiB |-> Uint64(0),
   NodeList |-> <<>>, LayerList |-> <<>>, ReplicasOnSame |-> <<>>,
   ReplicasOnDifferent |-> <<>>, StoragePool |-> <<>>, DisklessStoragePool |-> <<>>,
   AutoPlace |-> 0, DoNotPlaceWithRegex |-> <<>>, Encryption |-> FALSE,
   Annotations |-> NilMap]

\* the size conversion of line 171
SizeKiBOf(sizeBytes) == Uint64(GoDiv(sizeBytes, 1024) + 1)

\* resDeploymentConfigFromVolumeInfo(v): [cfg, err]; order is the order in
\* which the range over v.Parameters yields the keys
resDeploymentConfigFromVolumeInfo(v, order) ==
  LET cfg0 == [ZeroConfig EXCEPT !.Controllers = Controllers,
                                 !.Name = v.ID,
                                 !.SizeKiB = SizeKiBOf(v.SizeBytes)]
      r == ApplyParameters(cfg0, v.Parameters, order)
  IN IF r.err # nil THEN [cfg |-> NilCfg, err |-> r.err]
     ELSE [cfg |-> [r.cfg EXCEPT !.Annotations =
                      MakeMap([k \in {annotationsKey} |-> Marshal(v)])],
           err |-> nil]

\* the orders a range over the map params can take
KeyOrders(params) ==
  LET D == DOMAIN params.kv IN
    {o \in [1..Cardinality(D) -> D] : \A i, j \in 1..Cardinality(D) : i # j => o[i] # o[j]}

(***************************************************************************)
(* NameCanonicalizer: the inputs and the specification                     *)
(***************************************************************************)
\* the longest freely chosen head of an input name
MaxHead == 2
\* how far below the 48-character limit the padded names start
PadSpan == 3
\* how often a result is canonicalised again
MaxRounds == 1

\* one character of each class the code distinguishes, and those of "all"
InputChars == {"a", "l", "S", "1", "-", "_", "."}
PadChars == {"a", "1", "."}

RECURSIVE Repeat(_, _)
Repeat(c, n) == IF n = 0 THEN <<>> ELSE <<c>> \o Repeat(c, n - 1)

Heads == UNION {[1..n -> InputChars] : n \in 0..MaxHead}
Pads == {<<>>} \cup
        {Repeat(c, n) : c \in PadChars, n \in (MaxRest + 1 - PadSpan)..(MaxRest + 1)}
NameInputs == {h \o p : h \in Heads, p \in Pads} \cup {AllName}

NoResult == [name |-> <<>>, err |-> "none"]

IdleName ==
  /\ namePc = "idle"
  /\ nameArg = <<>>
  /\ nameRet = NoResult
  /\ namePrev = NoResult
  /\ nameRound = 0

IdleAlloc ==
  /\ allocPc = "idle"
  /\ requiredBytes = 0
  /\ limitBytes = 0
  /\ allocRet = [size |-> 0, err |-> "none"]

IdleCodec ==
  /\ codecPc = "idle"
  /\ vol = <<>>
  /\ cfgRet = <<>>
  /\ resDef = <<>>
  /\ decRet = <<>>

IdleStore ==
  /\ resDefs = <<>>
  /\ listErr = FALSE
  /\ storePc = "idle"
  /\ storeOp = "none"
  /\ storeArg = <<>>
  /\ storeUuid = <<>>
  /\ storeRet = <<>>

InitName ==
  /\ namePc = "call"
  /\ nameArg \in NameInputs
  /\ nameRet = NoResult
  /\ namePrev = NoResult
  /\ nameRound = 0
  /\ IdleAlloc
  /\ IdleCodec
  /\ IdleStore

\* a call of linstorifyResourceName(nameArg)
Linstorify ==
  /\ namePc = "call"
  /\ nameRet' = linstorifyResourceName(nameArg)
  /\ namePrev' = nameRet
  /\ namePc' = "ret"
  /\ UNCHANGED <<nameArg, nameRound, allocVars, codecVars, storeVars>>

\* the caller passes a returned name in again
Recanonicalize ==
  /\ namePc = "ret"
  /\ nameRet.err = nil
  /\ nameRound < MaxRounds
  /\ nameArg' = nameRet.name
  /\ nameRound' = nameRound + 1
  /\ namePc' = "call"
  /\ UNCHANGED <<nameRet, namePrev, allocVars, codecVars, storeVars>>

NextName == Linstorify \/ Recanonicalize

SpecName == InitName /\ [][NextName]_vars

\* C1: idempotency. Whenever linstorifyResourceName(x) succeeded with y and y
\* is passed in again, the call succeeds and returns y unchanged.
C1_Idempotent ==
  (namePc = "ret" /\ nameRound >= 1) =>
     /\ nameRet = [name |-> nameArg, err |-> nil]
     /\ nameRet = namePrev

\* a name of the maximal length produced by the LS_ prefix step was passed in again
C1_Witness ==
  /\ namePc = "ret"
  /\ nameRound = 1
  /\ Len(nameArg) = 1 + MaxRest
  /\ SubSeq(nameArg, 1, 3) = LSPrefix

\* the legal-name grammar, stated on its own
LegalName(n) ==
  /\ Len(n) \in 2..48
  /\ n[1] \in Alpha \cup {"_"}
  /\ \A i \in 1..Len(n) : n[i] \in Alpha \cup Digit \cup {"-", "_"}
  /\ \E i \in 1..Len(n) : n[i] \in Alpha
  /\ n # <<"a", "l", "l">>

\* C2: legality. A name linstorifyResourceName returns without error starts
\* with a letter or underscore, has 2 to 48 characters out of letters, digits,
\* '-' and '_', holds a letter and is not "all"; on each return path.
C2_Legal ==
  (namePc = "ret" /\ nameRet.err = nil) => LegalName(nameRet.name)

\* the LS_ prefix path returned: the result is three characters longer than
\* the argument, which held an illegal character
C2_Witness ==
  /\ namePc = "ret"
  /\ nameRound = 0
  /\ nameRet.err = nil
  /\ Len(nameRet.name) = Len(nameArg) + 3
  /\ \E i \in 1..Len(nameArg) : nameArg[i] \notin NameChar

\* C3 as stated: linstorifyResourceName("all") and linstorifyResourceName("")
\* fail with an error.
C3_Rejects ==
  (namePc = "ret" /\ nameRound = 0 /\ nameArg \in {AllName, <<>>}) =>
     nameRet.err # nil

\* C3 as amended: neither is returned unchanged or after substitution alone;
\* the LS_ prefix step turns them into the legal names "LS_all" and "LS_",
\* which are returned without error.
C3_Prefixed ==
  (namePc = "ret" /\ nameRound = 0 /\ nameArg \in {AllName, <<>>}) =>
     nameRet = [name |-> <<"L", "S", "_">> \o nameArg, err |-> nil]

\* linstorifyResourceName("all") has returned
C3_Witness ==
  /\ namePc = "ret"
  /\ nameRound = 0
  /\ nameArg = AllName
  /\ nameRet.err # "none"

(***************************************************************************)
(* CapacityPlanner: AllocationSizeKiB                                      *)
(***************************************************************************)
\* data.KiB: the bytes of one KiB
KiB == 1024
\* minVolumeSize := data.ByteSize(4096)
minVolumeSize == 4096

\* InclusiveBytes rounding down to whole KiBs
KibiByteInclusiveBytes_Floor(b) == (b \div KiB) * KiB

\* data.NewKibiByte(b).InclusiveBytes(): the bytes of the whole KiBs that hold b
KibiByteInclusiveBytes(b) == ((b + KiB - 1) \div KiB) * KiB
\* data.NewKibiByte(b).Value(): b in KiB
KibiByteValue(b) == b \div KiB
\* data.NewByte(b).InclusiveBytes()
ByteInclusiveBytes(b) == b

\* AllocationSizeKiB without the raise of the request to the minimum
AllocationSizeKiB_NoMin(required, limit) ==
  LET maxVolumeSize == limit
      unlimited == maxVolumeSize = 0
      volumeSize == KibiByteInclusiveBytes(required)
  IN IF minVolumeSize > maxVolumeSize /\ ~unlimited
       THEN [size |-> 0, err |-> "ErrMinExceedsLimit"]
     ELSE IF KibiByteInclusiveBytes(volumeSize) > ByteInclusiveBytes(maxVolumeSize)
             /\ ~unlimited
       THEN [size |-> KibiByteValue(volumeSize), err |-> "ErrLimited"]
     ELSE [size |-> KibiByteValue(volumeSize), err |-> nil]

AllocationSizeKiB(required, limit) ==
  LET maxVolumeSize == limit
      unlimited == maxVolumeSize = 0
      requestedSize == IF required < minVolumeSize THEN minVolumeSize ELSE required
      volumeSize == KibiByteInclusiveBytes(requestedSize)
  IN IF minVolumeSize > maxVolumeSize /\ ~unlimited
       THEN [size |-> 0, err |-> "ErrMinExceedsLimit"]
     ELSE IF KibiByteInclusiveBytes(volumeSize) > ByteInclusiveBytes(maxVolumeSize)
             /\ ~unlimited
       THEN [size |-> KibiByteValue(volumeSize), err |-> "ErrLimited"]
     ELSE [size |-> KibiByteValue(volumeSize), err |-> nil]

\* the largest requiredBytes drawn
MaxRequired == 5200
\* the limits drawn: unlimited, below / at / above the minimum, around 5 KiB, beyond
LimitInputs == {0, 1, 40, 4095, 4096, 4097, 5000, 5119, 5120, 5121, 6144}

InitAlloc ==
  /\ IdleName
  /\ IdleCodec
  /\ IdleStore
  /\ allocPc = "call"
  /\ requiredBytes \in 0..MaxRequired
  /\ limitBytes \in LimitInputs
  /\ allocRet = [size |-> 0, err |-> "none"]

CallAllocationSizeKiB ==
  /\ allocPc = "call"
  /\ allocRet' = AllocationSizeKiB(requiredBytes, limitBytes)
  /\ allocPc' = "ret"
  /\ UNCHANGED <<requiredBytes, limitBytes, nameVars, codecVars, storeVars>>

NextAlloc == CallAllocationSizeKiB

SpecAlloc == InitAlloc /\ [][NextAlloc]_vars

\* the smallest r with r * 1024 >= b
CeilUnits(b) == CHOOSE r \in 0..(b \div 1024 + 1) :
                  /\ r * 1024 >= b
                  /\ \A q \in 0..(b \div 1024 + 1) : q * 1024 >= b => r <= q

\* C4: with requested = max(requiredBytes, 4096) and r the smallest integer
\* with r*1024 >= requested, AllocationSizeKiB returns (0, error) when the
\* limit is non-zero and below 4096, else (r, error) when the limit is
\* non-zero and r*1024 exceeds it, else (r, nil); a success never
\* under-allocates and never exceeds a non-zero limit.
C4_Planner ==
  allocPc = "ret" =>
    LET requested == IF requiredBytes > 4096 THEN requiredBytes ELSE 4096
        r == CeilUnits(requested)
    IN /\ (limitBytes # 0 /\ limitBytes < 4096) =>
             (allocRet.size = 0 /\ allocRet.err # nil)
       /\ (~(limitBytes # 0 /\ limitBytes < 4096)
             /\ limitBytes # 0 /\ r * 1024 > limitBytes) =>
             (allocRet.size = r /\ allocRet.err # nil)
       /\ (~(limitBytes # 0 /\ limitBytes < 4096)
             /\ ~(limitBytes # 0 /\ r * 1024 > limitBytes)) =>
             (allocRet.size = r /\ allocRet.err = nil)
       /\ allocRet.err = nil =>
             /\ allocRet.size * 1024 >= requiredBytes
             /\ limitBytes # 0 => allocRet.size * 1024 <= limitBytes

\* a request with a partial KiB above the minimum was granted under a limit
C4_Witness ==
  /\ allocPc = "ret"
  /\ allocRet.err = nil
  /\ requiredBytes > 4096
  /\ requiredBytes % 1024 # 0
  /\ limitBytes # 0

\* C5 as stated: AllocationSizeKiB(1025, 0) succeeds with 2 units;
\* AllocationSizeKiB(100, 4096) succeeds with the 4096-byte minimum, 4 units;
\* AllocationSizeKiB(5000, 4096) returns a capacity error.
C5_Cases ==
  allocPc = "ret" =>
    /\ (requiredBytes = 1025 /\ limitBytes = 0) =>
          allocRet = [size |-> 2, err |-> nil]
    /\ (requiredBytes = 100 /\ limitBytes = 4096) =>
          allocRet = [size |-> 4, err |-> nil]
    /\ (requiredBytes = 5000 /\ limitBytes = 4096) =>
          allocRet.err # nil

\* C5 as amended: AllocationSizeKiB(1025, 0) succeeds with the 4096-byte
\* minimum, 4 units (the request is raised to the minimum before it is
\* rounded); the other two cases are as stated.
C5_CasesAmended ==
  allocPc = "ret" =>
    /\ (requiredBytes = 1025 /\ limitBytes = 0) =>
          allocRet = [size |-> 4, err |-> nil]
    /\ (requiredBytes = 100 /\ limitBytes = 4096) =>
          allocRet = [size |-> 4, err |-> nil]
    /\ (requiredBytes = 5000 /\ limitBytes = 4096) =>
          allocRet.err # nil

\* AllocationSizeKiB(1025, 0) has returned
C5_Witness ==
  /\ allocPc = "ret"
  /\ requiredBytes = 1025
  /\ limitBytes = 0

(***************************************************************************)
(* VolumeCodec: a volume is translated, its annotation is stored in a      *)
(* resource definition, and the definition is decoded                      *)
(***************************************************************************)
\* the longest ID / Name drawn
MaxStr == 2
\* the most parameters of a volume drawn
MaxParams == 2

CodecChars == {"a", "\"", "\\", InvalidByte}
CodecStrings == UNION {[1..n -> CodecChars] : n \in 0..MaxStr}
IDInputs == {<<"a", "1">>, <<"x">>}
SizeInputs == {-2048, -1, 0, 1024, 1025}
ParamKeyInputs == {AutoPlaceKey,
                   <<"A", "u", "t", "o", "P", "l", "a", "c", "e">>,
                   <<"E", "n", "c", "r", "y", "p", "t", "i", "o", "n">>,
                   NodeListKey}
ParamValueInputs == {<<>>, <<"2">>, <<"T", "R", "U", "E">>}
ParamInputs ==
  {NilMap} \cup
  UNION {{MakeMap(kv) : kv \in [D -> ParamValueInputs]} :
           D \in {K \in SUBSET ParamKeyInputs : Cardinality(K) <= MaxParams}}

\* a property of a resource definition that is not the annotation
ForeignProp == [Key |-> "DrbdOptions/Net/protocol", Value |-> "C"]

InitCodec ==
  /\ IdleName
  /\ IdleAlloc
  /\ IdleStore
  /\ codecPc = "call"
  /\ vol \in {Volume(id, name, size, params) :
                id \in IDInputs, name \in CodecStrings,
                size \in SizeInputs, params \in ParamInputs}
  /\ cfgRet = <<>>
  /\ resDef = <<>>
  /\ decRet = <<>>

\* a call of resDeploymentConfigFromVolumeInfo(vol)
CallConfigFromVolumeInfo ==
  /\ codecPc = "call"
  /\ \E order \in KeyOrders(vol.Parameters) :
        cfgRet' = resDeploymentConfigFromVolumeInfo(vol, order)
  /\ codecPc' = "encoded"
  /\ UNCHANGED <<vol, resDef, decRet, nameVars, allocVars, storeVars>>

\* the controller keeps each annotation of the deployment as the property
\* "Aux/" + key of the resource definition, among its other properties
StoreAnnotation ==
  /\ codecPc = "encoded"
  /\ cfgRet.err = nil
  /\ \E before \in {<<>>, <<ForeignProp>>}, after \in {<<>>} :
        resDef' = [RscName |-> cfgRet.cfg.Name,
                   RscDfnProps |->
                     before \o
                     <<[Key |-> "Aux/" \o annotationsKey,
                        Value |-> cfgRet.cfg.Annotations.kv[annotationsKey]]>> \o
                     after]
  /\ codecPc' = "stored"
  /\ UNCHANGED <<vol, cfgRet, decRet, nameVars, allocVars, storeVars>>

\* a call of resDefToVolume(resDef)
CallResDefToVolume ==
  /\ codecPc = "stored"
  /\ decRet' = resDefToVolume(resDef)
  /\ codecPc' = "decoded"
  /\ UNCHANGED <<vol, cfgRet, resDef, nameVars, allocVars, storeVars>>

NextCodec == CallConfigFromVolumeInfo \/ StoreAnnotation \/ CallResDefToVolume

SpecCodec == InitCodec /\ [][NextCodec]_vars

\* C6 as stated: for any Volume v, decoding the resource definition that
\* holds the annotation of v returns, without error, a Volume equal to v
\* field for field.
C6_RoundTrip ==
  codecPc = "decoded" => decRet = [vol |-> vol, err |-> nil]

\* every character of s is valid UTF-8
ValidUTF8(s) == \A i \in 1..Len(s) : s[i] # InvalidByte

\* v is a volume whose strings json.Marshal writes as they are
AllValidUTF8(v) ==
  /\ ValidUTF8(v.ID)
  /\ ValidUTF8(v.Name)
  /\ \A k \in DOMAIN v.Parameters.kv : ValidUTF8(k) /\ ValidUTF8(v.Parameters.kv[k])

\* C6 as amended: for any Volume v with a non-empty Name and strings that are
\* valid UTF-8, for which resDeploymentConfigFromVolumeInfo(v) succeeds,
\* decoding the resource definition that holds the annotation returns,
\* without error, a Volume equal to v field for field; a Volume with an
\* empty Name decodes to an error.
C6_RoundTripNamed ==
  codecPc = "decoded" =>
    /\ (vol.Name # <<>> /\ AllValidUTF8(vol)) => decRet = [vol |-> vol, err |-> nil]
    /\ vol.Name = <<>> => (decRet.vol = NilVol /\ decRet.err # nil)

\* a volume with a quote in its name, a negative size and two parameters was
\* decoded from a definition that holds another property before the annotation
C6_Witness ==
  /\ codecPc = "decoded"
  /\ vol.Name = <<"a", "\"">>
  /\ vol.SizeBytes = -1
  /\ Cardinality(DOMAIN vol.Parameters.kv) = 2
  /\ Len(resDef.RscDfnProps) > 1
  /\ resDef.RscDfnProps[1] = ForeignProp
  /\ decRet.err = nil

\* C10: for every SizeBytes >= 0 the SizeKiB of the configuration is the
\* smallest integer k with k*1024 >= SizeBytes, and is not a wrapped value.
C10_CeilKiB ==
  (codecPc = "encoded" /\ cfgRet.err = nil /\ vol.SizeBytes >= 0) =>
     /\ cfgRet.cfg.SizeKiB.wraps = 0
     /\ cfgRet.cfg.SizeKiB.n = CeilUnits(vol.SizeBytes)

(***************************************************************************)
(* VolumeStore: lookups over the resource definitions of the controller    *)
(***************************************************************************)
\* the most resource definitions the controller lists
MaxResDefs == 2

\* uuid.New(): 36 characters, 8-4-4-4-12 hexadecimal digits
UuidOf(d) == Repeat(d, 8) \o <<"-">> \o Repeat(d, 4) \o <<"-">> \o Repeat(d, 4) \o
             <<"-">> \o Repeat(d, 4) \o <<"-">> \o Repeat(d, 12)
UuidInputs == {UuidOf("1"), UuidOf("a")}

\* a resource definition with its annotation property
Annotated(rscName, doc) ==
  [RscName |-> rscName,
   RscDfnProps |-> <<ForeignProp, [Key |-> "Aux/" \o annotationsKey, Value |-> doc]>>]

\* a resource definition this system created for the volume v
OwnResDef(v) == Annotated(v.ID, Marshal(v))

\* an annotation that is no JSON text, one with a number for the name, and
\* one with an empty name
GarbageDoc == [kind |-> "garbage"]
TypeErrDoc == [kind |-> "object", members |-> [name |-> JNumber(5)]]
NoNameDoc == Marshal(Volume(<<"v", "3">>, <<>>, 0, EmptyMap))

ResDefInputs ==
  { \* created by this system
    OwnResDef(Volume(<<"v", "1">>, <<"n", "1">>, 1024, EmptyMap)),
    OwnResDef(Volume(<<"v", "2">>, fallbackPrefix \o <<"n", "2">>, 4096, NilMap)),
    \* an annotation whose ID is not the name of the resource
    Annotated(<<"r", "9">>, Marshal(Volume(<<"v", "1">>, <<"n", "9">>, 0, EmptyMap))),
    \* named by an earlier fallback
    OwnResDef(Volume(fallbackPrefix \o UuidOf("1"), <<"n", "1">>, 0, EmptyMap)),
    \* created by others: no annotation
    [RscName |-> <<"v", "1">>, RscDfnProps |-> <<ForeignProp>>],
    [RscName |-> <<"f", "1">>, RscDfnProps |-> <<>>],
    \* corrupt annotations
    Annotated(<<"v", "3">>, GarbageDoc),
    Annotated(<<"v", "3">>, NoNameDoc),
    Annotated(<<"v", "4">>, TypeErrDoc) }

NameQueries == {<<"n", "1">>, <<"n", "2">>, <<"z", "z">>}
IDQueries == {<<"v", "1">>, <<"v", "2">>, <<"r", "9">>, <<"z", "z">>}
SuggestedNames == {<<"v", "1">>, <<"v", "2">>, <<"z", ".", "z">>, <<"1">>, AllName,
                   Repeat("a", MaxRest + 2)}

InitStore ==
  /\ IdleName
  /\ IdleAlloc
  /\ IdleCodec
  /\ resDefs \in UNION {[1..n -> ResDefInputs] : n \in 0..MaxResDefs}
  /\ listErr \in BOOLEAN
  /\ storePc = "call"
  /\ storeOp = "none"
  /\ storeArg = <<>>
  /\ storeUuid = <<>>
  /\ storeRet = <<>>

CallGetByName ==
  /\ storePc = "call"
  /\ \E name \in NameQueries :
        /\ storeArg' = name
        /\ storeRet' = GetByName(resDefs, listErr, name)
  /\ storeOp' = "GetByName"
  /\ storePc' = "ret"
  /\ UNCHANGED <<resDefs, listErr, storeUuid, nameVars, allocVars, codecVars>>

CallGetByID ==
  /\ storePc = "call"
  /\ \E id \in IDQueries :
        /\ storeArg' = id
        /\ storeRet' = GetByID(resDefs, listErr, id)
  /\ storeOp' = "GetByID"
  /\ storePc' = "ret"
  /\ UNCHANGED <<resDefs, listErr, storeUuid, nameVars, allocVars, codecVars>>

CallCanonicalizeVolumeName ==
  /\ storePc = "call"
  /\ \E suggestedName \in SuggestedNames, u \in UuidInputs :
        /\ storeArg' = suggestedName
        /\ storeUuid' = u
        /\ storeRet' = CanonicalizeVolumeName(resDefs, listErr, suggestedName, u)
  /\ storeOp' = "CanonicalizeVolumeName"
  /\ storePc' = "ret"
  /\ UNCHANGED <<resDefs, listErr, nameVars, allocVars, codecVars>>

NextStore == CallGetByName \/ CallGetByID \/ CallCanonicalizeVolumeName

SpecStore == InitStore /\ [][NextStore]_vars

\* the name fallbackPrefix + uuid is that of no resource definition
FreshUuid ==
  \A i \in 1..Len(resDefs) :
    /\ resDefs[i].RscName # fallbackPrefix \o storeUuid
    /\ LET r == resDefToVolume(resDefs[i]) IN
         (r.err = nil /\ r.vol # NilVol) => r.vol.ID # fallbackPrefix \o storeUuid

\* C7: CanonicalizeVolumeName returns, for every suggested name and every
\* backend content, a name that is backend-legal and differs from the
\* resource name and from the decoded Volume.ID of every resource definition
\* of the backend (each generated identifier being fresh).
C7_UniqueLegal ==
  (storePc = "ret" /\ storeOp = "CanonicalizeVolumeName" /\ FreshUuid) =>
     /\ ~storeRet.panic
     /\ LegalName(storeRet.name)
     /\ \A i \in 1..Len(resDefs) :
          /\ resDefs[i].RscName # storeRet.name
          /\ LET r == resDefToVolume(resDefs[i]) IN
               (r.err = nil /\ r.vol # NilVol) => r.vol.ID # storeRet.name

\* the lookup C8 describes, from entry i on: [vol, err]
RECURSIVE TotalLookup(_, _, _)
TotalLookup(list, i, id) ==
  IF i > Len(list) THEN [vol |-> NilVol, err |-> nil]
  ELSE LET r == resDefToVolume(list[i]) IN
    IF r.err # nil THEN [vol |-> NilVol, err |-> r.err]
    ELSE IF list[i].RscName = id THEN [vol |-> r.vol, err |-> nil]
    ELSE IF r.vol # NilVol /\ r.vol.ID = id THEN [vol |-> r.vol, err |-> nil]
    ELSE TotalLookup(list, i + 1, id)

\* C8: GetByID(id) is a total lookup over any list: it returns the decoded
\* Volume of the first definition whose resource name or decoded ID is id,
\* passes over a definition without annotation whose name differs from id,
\* returns (nil, nil) when nothing matches, and never ends in a fault.
C8_TotalLookup ==
  (storePc = "ret" /\ storeOp = "GetByID" /\ ~listErr) =>
     /\ ~storeRet.panic
     /\ storeRet.vol = TotalLookup(resDefs, 1, storeArg).vol
     /\ storeRet.err = TotalLookup(resDefs, 1, storeArg).err

\* the annotation property of a resource definition that carries one
AnnotationOf(rd) ==
  rd.RscDfnProps[CHOOSE i \in 1..Len(rd.RscDfnProps) :
                   /\ rd.RscDfnProps[i].Key = "Aux/csi-volume-annotations"
                   /\ \A j \in 1..(i - 1) :
                        rd.RscDfnProps[j].Key # "Aux/csi-volume-annotations"]
HasAnnotation(rd) ==
  \E i \in 1..Len(rd.RscDfnProps) : rd.RscDfnProps[i].Key = "Aux/csi-volume-annotations"

\* the resource definition carries an annotation that cannot be deserialised
\* or deserialises to an empty Name
IsCorrupt(rd) ==
  /\ HasAnnotation(rd)
  /\ LET r == Unmarshal(AnnotationOf(rd).Value, NewVol) IN
       r.err # nil \/ r.vol.Name = <<>>

\* the Volume a resource definition that is not corrupt decodes to
DecodedVolume(rd) ==
  IF HasAnnotation(rd) THEN Unmarshal(AnnotationOf(rd).Value, NewVol).vol ELSE NilVol

\* the index of the first corrupt resource definition listed (0: none)
FirstCorrupt ==
  IF \E i \in 1..Len(resDefs) : IsCorrupt(resDefs[i])
    THEN CHOOSE i \in 1..Len(resDefs) :
           IsCorrupt(resDefs[i]) /\ \A j \in 1..(i - 1) : ~IsCorrupt(resDefs[j])
    ELSE 0

\* a lookup of the listed resource definitions has returned
LookedUp ==
  storePc = "ret" /\ storeOp \in {"GetByName", "GetByID"} /\ ~listErr

PassedOver(rd) ==
  LET v == DecodedVolume(rd) IN
  IF storeOp = "GetByName"
    THEN v = NilVol \/ (v.Name # storeArg /\ v.Name # fallbackPrefix \o storeArg)
    ELSE v # NilVol /\ rd.RscName # storeArg /\ v.ID # storeArg

====
